---------------------------- MODULE Spec2Model ----------------------------
(***************************************************************************)
(* Model of the callback processor of src/callbacks.go: one stage          *)
(* (processor) with its registry p.callbacks, its compiled list p.fns,     *)
(* the mutating calls Register / Replace / Remove, each of which           *)
(* recompiles, the lookup Get, and the execution harness Execute run on    *)
(* one or more *DB values.                                                 *)
(*                                                                         *)
(* Conventions.                                                            *)
(*  - A callback is a record; the registry is a sequence of records.       *)
(*    sortCallbacks works on the slice in place and through pointers, so   *)
(*    its reordering and its writes to before/after are returned as the    *)
(*    new registry.                                                        *)
(*  - A handler function is identified by the number of the call that     *)
(*    supplied it (1 for the first mutating call, 2 for the second, ...);  *)
(*    NilHandler is Go's nil func.                                         *)
(*  - Indices are 1-based, so getRIndex answers 0 where the Go code        *)
(*    answers -1.                                                          *)
(*  - match is "nil" (no condition) or "fc", a condition whose value on    *)
(*    p.db is the variable dbMatch.                                        *)
(***************************************************************************)
EXTENDS Integers, Sequences, FiniteSets, TLC

VARIABLES
    callbacks,   \* p.callbacks : the registry, a sequence of callback records
    fns,         \* p.fns       : the compiled list, a sequence of handlers
    err,         \* outcome of the most recent mutating call
    dbMatch,     \* what a callback's match(p.db) evaluates to at present
    declared,    \* history: the i-th mutating call, as the caller made it
    Clauses,     \* p.Clauses   : the clause names the stage contributes
    dbs          \* the *DB values handed to Execute, each with its Statement

vars == <<callbacks, fns, err, dbMatch, declared, Clauses, dbs>>

---------------------------------------------------------------------------
(* Bounds and input sets *)

MaxOps == 3

MaxDeepOps == 4

\* The step names, in the order in which a run first uses them.  The code
\* only ever compares names for equality, so a run that first uses them in
\* another order is this run with the names exchanged.
NameOrder == <<"a", "b", "c">>

Names == {NameOrder[k] : k \in DOMAIN NameOrder}

Star == "*"

Targets == Names \cup {Star}

NilHandler == 0

\* The (before, after, match) triple a caller attaches to a call:
\* p.Register / p.Replace / p.Remove attach none, p.Before(t) and p.After(t)
\* attach one ordering constraint.
NoDecl == [before |-> "", after |-> "", match |-> "nil"]

\* The names of the longer runs, one per call.
DeepOrder == <<"a", "b", "c", "d", "e", "f">>

DeepNames == {DeepOrder[k] : k \in 1..MaxDeepOps}

\* One ordering constraint on another step's name, or none.
DeepDecls(n) ==
    {NoDecl}
    \cup {[before |-> t, after |-> "", match |-> "nil"] : t \in DeepNames \ {n}}
    \cup {[before |-> "", after |-> t, match |-> "nil"] : t \in DeepNames \ {n}}

Decls ==
    {NoDecl}
    \cup {[before |-> t, after |-> "", match |-> "nil"] : t \in Targets}
    \cup {[before |-> "", after |-> t, match |-> "nil"] : t \in Targets}

---------------------------------------------------------------------------
(* type callback struct *)

NewCallback(name, before, after, remove, replace, match, handler) ==
    [name |-> name, before |-> before, after |-> after, remove |-> remove,
     replace |-> replace, match |-> match, handler |-> handler]

\* callback.match == nil || callback.match(p.db)
Matches(c, db) == c.match = "nil" \/ db

---------------------------------------------------------------------------
(* func getRIndex(strs []string, str string) int *)

RECURSIVE getRIndexFrom(_, _, _)
getRIndexFrom(strs, str, i) ==
    IF i = 0 THEN 0
    ELSE IF strs[i] = str THEN i
    ELSE getRIndexFrom(strs, str, i - 1)

getRIndex(strs, str) == getRIndexFrom(strs, str, Len(strs))

---------------------------------------------------------------------------
(* sort.SliceStable(cs, less) of sortCallbacks.  For at most 20 elements   *)
(* Go's stable sort is a plain insertion sort, which is what is modelled   *)
(* here because less is not a strict weak order.                           *)

less(cs, i, j) ==
    \/ cs[j].before = Star /\ cs[i].before # Star
    \/ cs[j].after = Star /\ cs[i].after # Star

Swap(cs, i, j) == [cs EXCEPT ![i] = cs[j], ![j] = cs[i]]

RECURSIVE InsertDown(_, _)
InsertDown(cs, j) ==
    IF j > 1 /\ less(cs, j, j - 1)
    THEN InsertDown(Swap(cs, j, j - 1), j - 1)
    ELSE cs

RECURSIVE InsertionSort(_, _)
InsertionSort(cs, i) ==
    IF i > Len(cs) THEN cs
    ELSE InsertionSort(InsertDown(cs, i), i + 1)

SliceStable(cs) == InsertionSort(cs, 2)

---------------------------------------------------------------------------
(* The closure sortCallback of sortCallbacks.  A call works on the pair    *)
(* (cs, sorted) and yields the pair as it leaves it, with err "nil",       *)
(* "conflict" (the fmt.Errorf returns) or "overflow": the recursion of the *)
(* after branch re-enters a call that is already active with the same      *)
(* callback, cs and sorted, so it never returns and the goroutine stack    *)
(* overflows.                                                              *)

NamesOf(cs) == [k \in 1..Len(cs) |-> cs[k].name]

Result(cs, sorted, e) == [cs |-> cs, sorted |-> sorted, err |-> e]

InsertAt(sorted, idx, name) ==
    SubSeq(sorted, 1, idx - 1) \o <<name>> \o SubSeq(sorted, idx, Len(sorted))

\* BeforeBranch with the insertion off by one: the callback lands behind
\* its before target instead of in front of it.
BeforeBranchOffByOne(i, cs, sorted) ==
    LET c == cs[i]
        sortedIdx == getRIndex(sorted, c.before)
        curIdx == getRIndex(sorted, c.name)
        idx == getRIndex(NamesOf(cs), c.before)
    IN  IF c.before = "" THEN Result(cs, sorted, "nil")
        ELSE IF c.before = Star /\ Len(sorted) > 0 THEN
            IF curIdx = 0
            THEN Result(cs, <<c.name>> \o sorted, "nil")
            ELSE Result(cs, sorted, "nil")
        ELSE IF sortedIdx # 0 THEN
            IF curIdx = 0
            THEN Result(cs, InsertAt(sorted, sortedIdx + 1, c.name), "nil")
            ELSE IF curIdx > sortedIdx
            THEN Result(cs, sorted, "conflict")
            ELSE Result(cs, sorted, "nil")
        ELSE IF idx # 0
        THEN Result([cs EXCEPT ![idx].after = c.name], sorted, "nil")
        ELSE Result(cs, sorted, "nil")

\* if c.before != "" { ... }
BeforeBranch(i, cs, sorted) ==
    LET c == cs[i]
        sortedIdx == getRIndex(sorted, c.before)
        curIdx == getRIndex(sorted, c.name)
        idx == getRIndex(NamesOf(cs), c.before)
    IN  IF c.before = "" THEN Result(cs, sorted, "nil")
        ELSE IF c.before = Star /\ Len(sorted) > 0 THEN
            IF curIdx = 0
            THEN Result(cs, <<c.name>> \o sorted, "nil")
            ELSE Result(cs, sorted, "nil")
        ELSE IF sortedIdx # 0 THEN
            IF curIdx = 0
            THEN Result(cs, InsertAt(sorted, sortedIdx, c.name), "nil")
            ELSE IF curIdx > sortedIdx
            THEN Result(cs, sorted, "conflict")
            ELSE Result(cs, sorted, "nil")
        ELSE IF idx # 0
        THEN Result([cs EXCEPT ![idx].after = c.name], sorted, "nil")
        ELSE Result(cs, sorted, "nil")

\* if getRIndex(sorted, c.name) == -1 { sorted = append(sorted, c.name) }
AppendIfMissing(i, cs, sorted) ==
    IF getRIndex(sorted, cs[i].name) = 0
    THEN Append(sorted, cs[i].name)
    ELSE sorted

\* The tail of every path through sortCallback that returns nil.
Finish(i, r) ==
    IF r.err # "nil" THEN r
    ELSE Result(r.cs, AppendIfMissing(i, r.cs, r.sorted), "nil")

\* after := cs[idx]; if after.before == "" { after.before = c.name }
AdoptBefore(cs, idx, name) ==
    IF cs[idx].before = "" THEN [cs EXCEPT ![idx].before = name] ELSE cs

RECURSIVE sortCallback(_, _, _, _)
RECURSIVE AfterBranch(_, _, _, _)

\* if c.after != "" { ... } and the final append, on the (cs, sorted) the
\* before branch left; stack holds the calls that are active.
AfterBranch(i, cs, sorted, stack) ==
    LET c == cs[i]
        here == Result(cs, sorted, "nil")
    IN  IF c.after = "" THEN Finish(i, here)
        ELSE IF c.after = Star /\ Len(sorted) > 0 THEN
            IF getRIndex(sorted, c.name) = 0
            THEN Finish(i, Result(cs, Append(sorted, c.name), "nil"))
            ELSE Finish(i, here)
        ELSE IF getRIndex(sorted, c.after) # 0 THEN
            IF getRIndex(sorted, c.name) = 0
            THEN Finish(i, Result(cs, Append(sorted, c.name), "nil"))
            ELSE IF getRIndex(sorted, c.name) < getRIndex(sorted, c.after)
            THEN Result(cs, sorted, "conflict")
            ELSE Finish(i, here)
        ELSE IF getRIndex(NamesOf(cs), c.after) # 0 THEN
            LET idx == getRIndex(NamesOf(cs), c.after)
                r1 == sortCallback(idx, AdoptBefore(cs, idx, c.name), sorted, stack)
            IN  IF r1.err # "nil" THEN r1
                ELSE Finish(i, sortCallback(i, r1.cs, r1.sorted, stack))
        ELSE Finish(i, here)

sortCallback(i, cs, sorted, active) ==
    IF <<i, cs, sorted>> \in active THEN Result(cs, sorted, "overflow")
    ELSE LET b == BeforeBranch(i, cs, sorted)
         IN  IF b.err # "nil" THEN b
             ELSE AfterBranch(i, b.cs, b.sorted, active \cup {<<i, cs, sorted>>})

---------------------------------------------------------------------------
(* func sortCallbacks(cs []*callback) (fns []func, err error) *)

\* for _, c := range cs { if err = sortCallback(c); err != nil { return } }
RECURSIVE SortAll(_, _, _)
SortAll(i, cs, sorted) ==
    IF i > Len(cs) THEN Result(cs, sorted, "nil")
    ELSE LET r == sortCallback(i, cs, sorted, {})
         IN  IF r.err # "nil" THEN r
             ELSE SortAll(i + 1, r.cs, r.sorted)

\* Project with the name looked up from the front of names instead of from
\* the back: the first callback of a name is compiled instead of the last.
RECURSIVE ProjectFirstOfName(_, _, _)
ProjectFirstOfName(cs, sorted, k) ==
    IF k > Len(sorted) THEN <<>>
    ELSE LET idx == CHOOSE x \in 1..Len(cs) :
                        /\ cs[x].name = sorted[k]
                        /\ \A y \in 1..(x - 1) : cs[y].name # sorted[k]
         IN  (IF cs[idx].remove THEN <<>> ELSE <<cs[idx].handler>>)
             \o ProjectFirstOfName(cs, sorted, k + 1)

\* for _, name := range sorted { if idx := ...; !cs[idx].remove { fns = append(...) } }
RECURSIVE Project(_, _, _)
Project(cs, sorted, k) ==
    IF k > Len(sorted) THEN <<>>
    ELSE LET idx == getRIndex(NamesOf(cs), sorted[k])
         IN  (IF cs[idx].remove THEN <<>> ELSE <<cs[idx].handler>>)
             \o Project(cs, sorted, k + 1)

\* Yields the slice as the call leaves it, the compiled list and the error.
sortCallbacks(cs0) ==
    LET r == SortAll(1, SliceStable(cs0), <<>>)
    IN  [cs |-> r.cs,
         fns |-> IF r.err = "nil" THEN Project(r.cs, r.sorted, 1) ELSE <<>>,
         err |-> r.err]

---------------------------------------------------------------------------
(* func removeCallbacks(cs []*callback, nameMap map[string]bool) *)

\* removeCallbacks sparing the tombstones themselves.
removeCallbacksKeepTombstone(cs, nameMap) ==
    SelectSeq(cs, LAMBDA c : c.name \notin nameMap \/ c.remove)

removeCallbacks(cs, nameMap) == SelectSeq(cs, LAMBDA c : c.name \notin nameMap)

---------------------------------------------------------------------------
(* func (p *processor) compile() (err error), on the registry cbs with     *)
(* match(p.db) evaluating to db.                                           *)

\* compile without the removeCallbacks pass.
compileWithoutRemoval(cbs, db) ==
    sortCallbacks(SelectSeq(cbs, LAMBDA c : Matches(c, db)))

compile(cbs, db) ==
    LET kept == SelectSeq(cbs, LAMBDA c : Matches(c, db))
        removedMap == {cbs[k].name : k \in {j \in 1..Len(cbs) : cbs[j].remove}}
        filtered == IF removedMap # {} THEN removeCallbacks(kept, removedMap)
                    ELSE kept
    IN  sortCallbacks(filtered)

---------------------------------------------------------------------------
(* func (p *processor) Get(name string) func *)

RECURSIVE GetFrom(_, _, _)
GetFrom(cbs, name, i) ==
    IF i = 0 THEN NilHandler
    ELSE IF cbs[i].name = name /\ ~cbs[i].remove THEN cbs[i].handler
    ELSE GetFrom(cbs, name, i - 1)

Get(name) == GetFrom(callbacks, name, Len(callbacks))

---------------------------------------------------------------------------
(* The state machine *)

Crashed == err = "overflow"

\* The *DB values that Execute is called with.
DBs == {1, 2}

\* A *DB on which Execute has not been called yet.
IdleDB == [pc |-> "idle"]

Init ==
    /\ callbacks = <<>>
    /\ fns = <<>>
    /\ err = "nil"
    /\ dbMatch = TRUE
    /\ declared = <<>>
    /\ Clauses = <<>>
    /\ dbs = [i \in DBs |-> IdleDB]

\* c.processor.callbacks = append(c.processor.callbacks, c); return c.processor.compile()
\* A stack overflow is fatal to the process: nothing is assigned.
AppendAndCompile(c) ==
    LET r == compile(Append(callbacks, c), dbMatch)
    IN  IF r.err = "overflow"
        THEN /\ err' = "overflow"
             /\ UNCHANGED <<callbacks, fns>>
        ELSE /\ callbacks' = r.cs
             /\ fns' = r.fns
             /\ err' = r.err

Declare(kind, name, d) ==
    declared' = Append(declared,
        [kind |-> kind, name |-> name, before |-> d.before,
         after |-> d.after, match |-> d.match])

\* func (c *callback) Register(name string, fn func) error
Register(name, d) ==
    /\ ~Crashed
    /\ AppendAndCompile(NewCallback(name, d.before, d.after, FALSE, FALSE,
                                    d.match, Len(declared) + 1))
    /\ Declare("register", name, d)
    /\ UNCHANGED <<dbMatch, Clauses, dbs>>

\* func (c *callback) Replace(name string, fn func) error
Replace(name, d) ==
    /\ ~Crashed
    /\ AppendAndCompile(NewCallback(name, d.before, d.after, FALSE, TRUE,
                                    d.match, Len(declared) + 1))
    /\ Declare("replace", name, d)
    /\ UNCHANGED <<dbMatch, Clauses, dbs>>

\* func (p *processor) Remove(name string) error
Remove(name) ==
    /\ ~Crashed
    /\ AppendAndCompile(NewCallback(name, "", "", TRUE, FALSE, "nil", NilHandler))
    /\ Declare("remove", name, NoDecl)
    /\ UNCHANGED <<dbMatch, Clauses, dbs>>

\* The name n is the next unused name of NameOrder, or one already used.
InOrder(n) ==
    \A k \in DOMAIN NameOrder :
        NameOrder[k] = n =>
            \A j \in 1..(k - 1) :
                NameOrder[j] \in {declared[h].name : h \in DOMAIN declared}

\* Every call of the registration API, at most MaxOps calls.
Next ==
    \/ \E n \in Names, d \in Decls :
          Len(declared) < MaxOps /\ InOrder(n) /\ Register(n, d)
    \/ \E n \in Names :
          Len(declared) < MaxOps /\ InOrder(n) /\ Replace(n, NoDecl)
    \/ \E n \in Names :
          Len(declared) < MaxOps /\ InOrder(n) /\ Remove(n)

Spec == Init /\ [][Next]_vars

\* Longer runs over more names: MaxDeepOps steps with names of their own,
\* registered one after the other by p.Register, p.Before(t).Register or
\* p.After(t).Register, t being the name of another of these steps.
NextDeep ==
    \E d \in DeepDecls(DeepOrder[Len(declared) + 1]) :
        Len(declared) < MaxDeepOps /\ Register(DeepOrder[Len(declared) + 1], d)

SpecDeep == Init /\ [][NextDeep]_vars

\* The value of the registered conditions on p.db changes between calls.
SetMatch ==
    /\ dbMatch' = ~dbMatch
    /\ UNCHANGED <<callbacks, fns, err, declared, Clauses, dbs>>

MaxMatchOps == 3

\* The step names of the runs with conditions.
MatchNames == {NameOrder[1], NameOrder[2]}

\* One constraint on a step of MatchNames or on "*", without a condition,
\* and p.Match(fc), p.Match(fc).Before("*") and p.Match(fc).After("*").
MatchDecls ==
    {NoDecl}
    \cup {[before |-> t, after |-> "", match |-> "nil"] : t \in MatchNames \cup {Star}}
    \cup {[before |-> "", after |-> t, match |-> "nil"] : t \in MatchNames \cup {Star}}
    \cup {[before |-> "", after |-> "", match |-> "fc"],
          [before |-> Star, after |-> "", match |-> "fc"],
          [before |-> "", after |-> Star, match |-> "fc"]}

\* Registration and removal of conditional steps, with the conditions'
\* value changing in between.
NextMatch ==
    \/ \E n \in MatchNames, d \in MatchDecls :
          Len(declared) < MaxMatchOps /\ InOrder(n) /\ Register(n, d)
    \/ \E n \in MatchNames :
          Len(declared) < MaxMatchOps /\ InOrder(n) /\ Remove(n)
    \/ SetMatch

SpecMatch == Init /\ [][NextMatch]_vars

---------------------------------------------------------------------------
(* func (p *processor) Execute(db *DB) *DB.  A *DB of dbs is a record of   *)
(* the fields of db and db.Statement that Execute reads or writes, of the  *)
(* locals of the call (resetBuildClauses, the slice rng being ranged over  *)
(* and the position k in it) and of the record calls of the handlers       *)
(* invoked on it.  What stmt.Parse and reflect answer for the caller's     *)
(* values is part of the input (parse, valid).  SQL text and Vars are      *)
(* sequences of tokens: 0 for text the caller supplied, h for text written *)
(* by handler h.                                                           *)

RawSQL == <<0>>

\* What a caller hands to Execute.
ExecInputs ==
    {in \in [scopes : {0, 1},
             BuildClauses : {<<>>, <<"SELECT">>},
             Model : {"nil", "m"},
             Dest : {"nil", "d"},
             parse : {"ok", "unsupported", "failed"},
             tableSet : BOOLEAN,
             valid : BOOLEAN,
             SQL : {<<>>, RawSQL},
             DryRun : BOOLEAN] :
        /\ (in.Model = "nil" /\ in.Dest = "nil") => (in.parse = "ok" /\ in.valid)
        /\ in.parse # "unsupported" => in.tableSet}

\* Callers without model, destination or scopes.
PlainInputs ==
    {in \in ExecInputs :
        /\ in.scopes = 0 /\ in.Model = "nil" /\ in.Dest = "nil"
        /\ in.tableSet /\ in.SQL = <<>>}

\* db.AddError(err)
AddError(d, e) == [d EXCEPT !.Error = Append(@, e)]

\* if len(stmt.BuildClauses) == 0 { stmt.BuildClauses = p.Clauses; resetBuildClauses = true }
AdoptClauses(d, clauses) ==
    IF Len(d.BuildClauses) = 0
    THEN [d EXCEPT !.BuildClauses = clauses, !.resetBuildClauses = TRUE]
    ELSE d

\* if stmt.Model == nil { stmt.Model = stmt.Dest } else if stmt.Dest == nil { stmt.Dest = stmt.Model }
AssignModel(d) ==
    IF d.Model = "nil" THEN [d EXCEPT !.Model = d.Dest]
    ELSE IF d.Dest = "nil" THEN [d EXCEPT !.Dest = d.Model]
    ELSE d

\* if stmt.Model != nil { if err := stmt.Parse(stmt.Model); err != nil && ... }
ParseModel(d) ==
    IF /\ d.Model # "nil"
       /\ d.parse # "ok"
       /\ (d.parse # "unsupported" \/ (~d.tableSet /\ Len(d.SQL) = 0))
    THEN IF d.parse = "unsupported" /\ ~d.tableSet
         THEN AddError(d, "table not set")
         ELSE AddError(d, "parse")
    ELSE d

\* if stmt.Dest != nil { ...; if !stmt.ReflectValue.IsValid() { db.AddError(ErrInvalidValue) } }
AssignReflectValue(d) ==
    IF d.Dest # "nil" /\ ~d.valid THEN AddError(d, "invalid value") ELSE d

\* Execute from its entry to the head of the loop over p.fns.
Prepare(in, clauses, list) ==
    LET d0 == [pc |-> "call",
               scopes |-> 0,
               BuildClauses |-> in.BuildClauses,
               Model |-> in.Model, Dest |-> in.Dest,
               parse |-> in.parse, tableSet |-> in.tableSet, valid |-> in.valid,
               SQL |-> in.SQL, Vars |-> in.SQL,
               DryRun |-> in.DryRun,
               Error |-> <<>>,
               resetBuildClauses |-> FALSE,
               rng |-> list, k |-> 1,
               calls |-> <<>>,
               traced |-> FALSE,
               given |-> in]
    IN  AssignReflectValue(ParseModel(AssignModel(AdoptClauses(d0, clauses))))

\* What a handler does to the *DB it is called with: nothing, append SQL
\* text and a bound parameter, or record an error.
Effects == {"none", "sql", "error"}

\* A loop that stops as soon as an error is recorded on the *DB.
MoreToRunUnlessError(d) == d.k <= Len(d.rng) /\ d.Error = <<>>

\* for _, f := range p.fns: the loop has an element left.
MoreToRun(d) == d.k <= Len(d.rng)

\* f(db), for the handler f at the loop's position, with effect e.
Called(d, e) ==
    LET f == d.rng[d.k]
        d1 == [d EXCEPT !.calls = Append(@, [fn |-> f, saw |-> d.BuildClauses,
                                             effect |-> e]),
                        !.k = @ + 1]
    IN  IF e = "sql" THEN [d1 EXCEPT !.SQL = Append(@, f), !.Vars = Append(@, f)]
        ELSE IF e = "error" THEN AddError(d1, "handler")
        ELSE d1

\* One loop position for every *DB: the calls in progress advance together.
InvokeShared(ds, i, e) ==
    [j \in DOMAIN ds |->
        IF j = i THEN Called(ds[i], e)
        ELSE IF ds[j].pc = "call" THEN [ds[j] EXCEPT !.k = @ + 1]
        ELSE ds[j]]

\* The loop body on the *DB i: only that *DB changes.
Invoke(ds, i, e) == [ds EXCEPT ![i] = Called(ds[i], e)]

\* if stmt.SQL.Len() > 0 { db.Logger.Trace(...) }
Trace(d) == IF Len(d.SQL) > 0 THEN [d EXCEPT !.traced = TRUE] ELSE d

\* The SQL reset left out.
KeepSQL(d) == d

\* if !stmt.DB.DryRun { stmt.SQL.Reset(); stmt.Vars = nil }
ResetSQL(d) ==
    IF ~d.DryRun THEN [d EXCEPT !.SQL = <<>>, !.Vars = <<>>] ELSE d

\* The clause list reset whether or not it was adopted.
ResetBuildClausesAlways(d) == [d EXCEPT !.BuildClauses = <<>>]

\* if resetBuildClauses { stmt.BuildClauses = nil }
ResetBuildClauses(d) ==
    IF d.resetBuildClauses THEN [d EXCEPT !.BuildClauses = <<>>] ELSE d

\* Execute from the end of the loop to its return.
Return(d) == [ResetBuildClauses(ResetSQL(Trace(d))) EXCEPT !.pc = "returned"]

\* Execute is called with the *DB i.
Execute_Prepare(i, in) ==
    /\ dbs[i].pc = "idle"
    /\ dbs' = [dbs EXCEPT ![i] = Prepare(in, Clauses, fns)]
    /\ UNCHANGED <<callbacks, fns, err, dbMatch, declared, Clauses>>

\* One iteration of the loop over p.fns.
Execute_Call(i, e) ==
    /\ dbs[i].pc = "call"
    /\ MoreToRun(dbs[i])
    /\ dbs' = Invoke(dbs, i, e)
    /\ UNCHANGED <<callbacks, fns, err, dbMatch, declared, Clauses>>

\* The loop is over: trace, resets, return db.
Execute_Return(i) ==
    /\ dbs[i].pc = "call"
    /\ ~MoreToRun(dbs[i])
    /\ dbs' = [dbs EXCEPT ![i] = Return(dbs[i])]
    /\ UNCHANGED <<callbacks, fns, err, dbMatch, declared, Clauses>>

MaxSetupOps == 2

\* The clause names a stage is configured with.
ClauseLists == {<<>>, <<"INSERT", "VALUES">>}

InitExec ==
    /\ callbacks = <<>>
    /\ fns = <<>>
    /\ err = "nil"
    /\ dbMatch = TRUE
    /\ declared = <<>>
    /\ Clauses \in ClauseLists
    /\ dbs = [i \in DBs |-> IdleDB]

\* Registration happens in a setup phase, before Execute is first called.
SetupPhase == \A i \in DBs : dbs[i].pc = "idle"

SetupDecls == {NoDecl, [before |-> Star, after |-> "", match |-> "nil"]}

\* A setup phase of at most MaxSetupOps registrations, then one Execute call
\* with any input.
NextExec ==
    \/ \E n \in MatchNames, d \in SetupDecls :
          /\ SetupPhase /\ Len(declared) < MaxSetupOps /\ InOrder(n)
          /\ Register(n, d)
    \/ \E in \in ExecInputs : Execute_Prepare(1, in)
    \/ \E e \in Effects : Execute_Call(1, e)
    \/ Execute_Return(1)

SpecExec == InitExec /\ [][NextExec]_vars

\* A setup phase, then Execute calls on every *DB, interleaved.
NextConc ==
    \/ \E n \in MatchNames, d \in SetupDecls :
          /\ SetupPhase /\ Len(declared) < MaxSetupOps /\ InOrder(n)
          /\ Register(n, d)
    \/ \E i \in DBs, in \in PlainInputs : Execute_Prepare(i, in)
    \/ \E i \in DBs, e \in Effects : Execute_Call(i, e)
    \/ \E i \in DBs : Execute_Return(i)

SpecConc == InitExec /\ [][NextConc]_vars

\* The calls of the history that are Removes, and the first of them.
Removes == {k \in DOMAIN declared : declared[k].kind = "remove"}

FirstRemove == CHOOSE k \in Removes : \A m \in Removes : k <= m

\* The calls made after the first Remove that register a step.
ReRegistrations ==
    IF Removes = {} THEN {}
    ELSE {k \in DOMAIN declared :
             k > FirstRemove /\ declared[k].kind = "register"}

MaxRecoverOps == 2

\* No constraint, or before= another step.
RecoverDecls(n) ==
    {NoDecl} \cup {[before |-> t, after |-> "", match |-> "nil"] : t \in Names \ {n}}

\* Steps are registered until a compilation reports a conflict; steps are
\* then removed by name; after that steps are registered again.
NextRecover ==
    \/ \E n \in Names : \E d \in RecoverDecls(n) :
          /\ Removes = {} /\ err = "nil"
          /\ Len(declared) < MaxOps /\ InOrder(n)
          /\ Register(n, d)
    \/ \E n \in Names :
          /\ err = "conflict" \/ Removes # {}
          /\ ReRegistrations = {}
          /\ Cardinality(Removes) < MaxRecoverOps
          /\ \E x \in DOMAIN callbacks : callbacks[x].name = n
          /\ Remove(n)
    \/ \E n \in Names : \E d \in RecoverDecls(n) :
          /\ Removes # {} /\ err = "nil"
          /\ Cardinality(ReRegistrations) < MaxRecoverOps
          /\ Register(n, d)

SpecRecover == Init /\ [][NextRecover]_vars

MaxReplaceOps == 3

\* Steps with names of their own are registered, each with at most one
\* constraint on another step's name; then one of them is replaced.
NextReplace ==
    \/ \E d \in DeepDecls(DeepOrder[Len(declared) + 1]) :
          /\ Len(declared) < MaxReplaceOps
          /\ \A k \in DOMAIN declared : declared[k].kind = "register"
          /\ Register(DeepOrder[Len(declared) + 1], d)
    \/ \E n \in DeepNames :
          /\ \A k \in DOMAIN declared : declared[k].kind = "register"
          /\ \E x \in DOMAIN callbacks : callbacks[x].name = n
          /\ Replace(n, NoDecl)

SpecReplace == Init /\ [][NextReplace]_vars

\* Registration and removal of steps of MatchNames that constrain each
\* other, long enough for a removed name to be registered again.
MaxReuseOps == 4

ReuseDecls ==
    {NoDecl}
    \cup {[before |-> t, after |-> "", match |-> "nil"] : t \in MatchNames}
    \cup {[before |-> "", after |-> t, match |-> "nil"] : t \in MatchNames}

NextReuse ==
    \/ \E n \in MatchNames, d \in ReuseDecls :
          Len(declared) < MaxReuseOps /\ InOrder(n) /\ Register(n, d)
    \/ \E n \in MatchNames :
          /\ Len(declared) < MaxReuseOps
          /\ \E x \in DOMAIN callbacks : callbacks[x].name = n
          /\ Remove(n)

SpecReuse == Init /\ [][NextReuse]_vars

\* Registrations of unconditional steps followed by the registration of a
\* step under p.Match(fc), with the conditions' value chosen once, before
\* the first call.
MaxNoopOps == 3

MatchOnly == [before |-> "", after |-> "", match |-> "fc"]

NextNoop ==
    \/ declared = <<>> /\ dbMatch /\ SetMatch
    \/ \E n \in Names, d \in Decls :
          /\ Len(declared) < MaxNoopOps
          /\ InOrder(n)
          /\ \A k \in DOMAIN declared : declared[k].match = "nil"
          /\ Register(n, d)
    \/ /\ Len(declared) <= MaxNoopOps
       /\ \A k \in DOMAIN declared : declared[k].match = "nil"
       /\ Register(DeepOrder[Len(NameOrder) + 1], MatchOnly)

SpecNoop == Init /\ [][NextNoop]_vars

TypeOK ==
    /\ err \in {"nil", "conflict", "overflow"}
    /\ dbMatch \in BOOLEAN
    /\ Len(declared) <= MaxOps + MaxDeepOps + 2 * MaxRecoverOps
    /\ \A k \in 1..Len(callbacks) : callbacks[k].name \in Names \cup DeepNames

---------------------------------------------------------------------------
(* Reading the history: what the caller declared, as opposed to what the   *)
(* registry holds after compilation has worked on it.                      *)

Ops == 1..Len(declared)

IsRegistration(h) == declared[h].kind \in {"register", "replace"}

RemovedLater(h) ==
    \E k \in Ops : /\ k > h
                   /\ declared[k].kind = "remove"
                   /\ declared[k].name = declared[h].name

\* The candidate steps: registered, not removed since, condition holding.
Live == {h \in Ops : /\ IsRegistration(h)
                     /\ ~RemovedLater(h)
                     /\ (declared[h].match = "nil" \/ dbMatch)}

LiveNames == {declared[h].name : h \in Live}

\* No two candidate steps share a name.
DistinctLiveNames ==
    \A h, k \in Live : h # k => declared[h].name # declared[k].name

InFns(h) == \E i \in DOMAIN fns : fns[i] = h

AllNames == Names \cup DeepNames

\* The candidate steps registered under the name n.
LiveNamed(n) == {h \in Live : declared[h].name = n}

Latest(S) == CHOOSE h \in S : \A k \in S : k <= h

\* p.Register(name, fn): no constraint, no condition, not a Replace.
PlainRegister(h) ==
    /\ declared[h].kind = "register"
    /\ declared[h].before = ""
    /\ declared[h].after = ""
    /\ declared[h].match = "nil"

Compiled == err = "nil"

Call(kind, name, before, after) ==
    [kind |-> kind, name |-> name, before |-> before, after |-> after,
     match |-> "nil"]

---------------------------------------------------------------------------
(* What the declared constraints ask for *)

\* A total order of the candidate names, as a position for each name.
Positions ==
    {p \in [LiveNames -> 1..Cardinality(LiveNames)] :
        \A x, y \in LiveNames : x # y => p[x] # p[y]}

HasBeforeStar(n) ==
    \E h \in Live : declared[h].name = n /\ declared[h].before = Star

HasAfterStar(n) ==
    \E h \in Live : declared[h].name = n /\ declared[h].after = Star

\* The order p satisfies every constraint the candidate steps declared.
Satisfies(p) ==
    \A h \in Live :
        LET d == declared[h]
        IN  /\ d.before \in LiveNames => p[d.name] < p[d.before]
            /\ d.after \in LiveNames => p[d.name] > p[d.after]
            /\ d.before = Star =>
                  \A m \in LiveNames : ~HasBeforeStar(m) => p[d.name] < p[m]
            /\ d.after = Star =>
                  \A m \in LiveNames : ~HasAfterStar(m) => p[d.name] > p[m]

\* The declared constraints contain no contradiction: some order satisfies
\* all of them.
ContradictionFree == \E p \in Positions : Satisfies(p)

\* The registries on which the ordering claims are least in doubt: every
\* candidate step has a name of its own and the declared constraints can
\* all be satisfied together.
CleanRegistry == DistinctLiveNames /\ ContradictionFree

---------------------------------------------------------------------------
(* C1 *)

\* C1: whenever the most recent compilation succeeded, the compiled list is
\* consistent with every declared constraint: for steps S and T both in the
\* list, S registered with before=T stands before T, and S registered with
\* after=T stands after T.  Stated here for clean registries only (distinct
\* names, satisfiable constraints); the claim makes it for every registry.
C1_ConstraintsHonoured ==
    (Compiled /\ CleanRegistry) =>
        \A i, j \in DOMAIN fns :
            /\ (i # j /\ declared[fns[i]].before = declared[fns[j]].name) => i < j
            /\ (i # j /\ declared[fns[i]].after = declared[fns[j]].name) => i > j

---------------------------------------------------------------------------
(* C2 *)

\* C2: for every registry whose declared constraints contain no
\* contradiction, compilation succeeds and the compiled list holds the
\* action of every candidate step exactly once and no other action.  Stated
\* here for registries whose candidate steps have distinct names; the claim
\* makes it for every registry.
C2_CompilesToPermutation ==
    CleanRegistry =>
        /\ err = "nil"
        /\ {fns[i] : i \in DOMAIN fns} = Live
        /\ Len(fns) = Cardinality(Live)

---------------------------------------------------------------------------
(* C3 *)

\* C3: in every successfully compiled list every step registered with
\* before="*" precedes every step not registered with before="*", and every
\* step registered with after="*" follows every step not registered with
\* after="*".  Stated here for clean registries only; the claim makes it for
\* every registry.
C3_WildcardsAtTheEnds ==
    (Compiled /\ CleanRegistry) =>
        \A i, j \in DOMAIN fns :
            /\ (declared[fns[i]].before = Star /\ declared[fns[j]].before # Star)
                  => i < j
            /\ (declared[fns[i]].after = Star /\ declared[fns[j]].after # Star)
                  => i > j

---------------------------------------------------------------------------
(* C4 *)

\* C4: if step A is registered with before=B and B declares no constraint
\* that conflicts with it, A's action precedes B's action in every compiled
\* list that contains both, whatever the registration order and the other
\* steps.  Stated here for clean registries, where no step declares
\* anything that conflicts with another step's constraint.
C4_BeforeHonoured ==
    (Compiled /\ CleanRegistry) =>
        \A i, j \in DOMAIN fns :
            declared[fns[i]].before = declared[fns[j]].name => i < j

---------------------------------------------------------------------------
(* C5 *)

\* The steps h and k declare before= each other.
MutualBefore(h, k) ==
    /\ declared[h].name # declared[k].name
    /\ declared[h].before = declared[k].name
    /\ declared[k].before = declared[h].name

\* C5: whenever the registry holds a step A registered with before=B and a
\* step B registered with before=A, the mutating call that completes the
\* pair returns a conflict error and no compiled order is accepted.  Stated
\* here for registries whose candidate steps have distinct names.
C5_MutualBeforeConflicts ==
    (/\ DistinctLiveNames
     /\ Len(declared) \in Live
     /\ \E h \in Live : MutualBefore(h, Len(declared)))
    => (err = "conflict" /\ fns = <<>>)

---------------------------------------------------------------------------
(* C6 *)

\* C6: registering, in this order on an empty stage, A with after="*", then
\* B with before=A, then C with no constraint leaves the compiled order
\* B, C, A.
C6_ScenarioOrder ==
    \A A, B, C \in Names :
        (/\ A # B /\ A # C /\ B # C
         /\ declared = << Call("register", A, "", Star),
                          Call("register", B, A, ""),
                          Call("register", C, "", "") >>)
        => (Compiled /\ fns = <<2, 3, 1>>)

---------------------------------------------------------------------------
(* C7 *)

\* Exactly two candidate steps carry the name n, both from plain Register.
TwoPlainSteps(n) ==
    /\ Cardinality(LiveNamed(n)) = 2
    /\ \A h \in LiveNamed(n) : PlainRegister(h)

---------------------------------------------------------------------------
(* C8 *)

RemoveOf(k, n) == declared[k].kind = "remove" /\ declared[k].name = n

\* The step h was registered with plain Register after a Remove of its name, and
\* no Replace of that name came after that Remove.
RegisteredAfterRemove(h) ==
    /\ PlainRegister(h)
    /\ \E k \in Ops :
          /\ k < h
          /\ RemoveOf(k, declared[h].name)
          /\ ~\E r \in Ops : /\ r > k
                             /\ declared[r].kind = "replace"
                             /\ declared[r].name = declared[h].name

---------------------------------------------------------------------------
(* C9 *)

\* The name n has been registered and the last call naming it is a Remove.
RemovedLast(n) ==
    /\ \E h \in Ops : IsRegistration(h) /\ declared[h].name = n
    /\ \E k \in Ops :
          /\ RemoveOf(k, n)
          /\ \A h \in Ops : declared[h].name = n => h <= k

\* C9: if a name X has been registered and Remove(X) is then called with no
\* later registration of X, the compiled list contains no action of any
\* step named X and Get(X) returns nil.
C9_RemovedNameIsGone ==
    \A n \in AllNames :
        (~Crashed /\ RemovedLast(n)) =>
            /\ \A i \in DOMAIN fns : declared[fns[i]].name # n
            /\ Get(n) = NilHandler

\* A registered name has been removed while another step is still compiled.
C9_Witness ==
    \E n \in AllNames :
        /\ RemovedLast(n)
        /\ Compiled
        /\ fns # <<>>

---------------------------------------------------------------------------
(* C10 *)

\* No call names its own step as before or after.
NoSelfReference ==
    \A h \in Ops : /\ declared[h].before # declared[h].name
                    /\ declared[h].after # declared[h].name

\* C10: after any sequence of mutations Get(name) returns the action of the
\* most recently registered step with that name that has not been removed,
\* or nil if there is none, also when same-named steps carry different
\* before/after constraints (the wildcard included).  Stated here for the
\* sequences in which no step names itself.
C10_GetReturnsLatest ==
    (~Crashed /\ NoSelfReference) =>
        \A n \in AllNames :
            Get(n) = IF LiveNamed(n) = {} THEN NilHandler
                     ELSE Latest(LiveNamed(n))

---------------------------------------------------------------------------
(* C11 *)

\* The most recent call is a Replace of a name that a step not removed
\* since is registered under.
JustReplaced(n) ==
    /\ declared # <<>>
    /\ declared[Len(declared)].kind = "replace"
    /\ declared[Len(declared)].name = n
    /\ LiveNamed(n) \ {Len(declared)} # {}

\* C11: after Replace(name, action2) on a stage where name is already
\* registered with action1, the earlier entry is still in the registry,
\* Get(name) returns action2, and the compiled list contains action2 and
\* does not contain action1.  Stated here for the sequences in which no
\* step names itself and the Replace compiles without error.
C11_ReplaceSupersedes ==
    \A n \in AllNames :
        (Compiled /\ NoSelfReference /\ JustReplaced(n)) =>
            /\ \A h \in LiveNamed(n) :
                  \E x \in DOMAIN callbacks : callbacks[x].handler = h
            /\ Get(n) = Len(declared)
            /\ InFns(Len(declared))
            /\ \A h \in LiveNamed(n) \ {Len(declared)} : ~InFns(h)

---------------------------------------------------------------------------
(* C12 *)

\* The step h was registered with a condition and has not been removed.
ConditionalStep(h) ==
    /\ IsRegistration(h)
    /\ declared[h].match = "fc"
    /\ ~RemovedLater(h)

\* C12: a step registered with a condition that evaluates to false at a
\* compilation is excluded from that compilation's output but stays in the
\* registry: if the condition evaluates to true at a later recompilation,
\* the step is included in that later compiled list.  As a property of
\* every mutating call (a step that lengthens the history), for the calls
\* that compile without error and leave candidate steps of distinct names.
C12_ConditionReevaluated ==
    [][(/\ Len(declared') > Len(declared)
        /\ err' = "nil"
        /\ DistinctLiveNames')
       => \A h \in Ops :
             ConditionalStep(h)' =>
                 /\ ~dbMatch => ~InFns(h)'
                 /\ dbMatch =>
                       /\ InFns(h)'
                       /\ \E x \in DOMAIN callbacks' : callbacks'[x].handler = h]_vars

---------------------------------------------------------------------------
(* C13 *)

\* The entry the most recent call appended is in the registry.
NewEntryKept ==
    LET d == declared[Len(declared)]
    IN  IF d.kind = "remove"
        THEN \E x \in DOMAIN callbacks :
                callbacks[x].remove /\ callbacks[x].name = d.name
        ELSE \E x \in DOMAIN callbacks :
                /\ callbacks[x].handler = Len(declared)
                /\ callbacks[x].name = d.name
                /\ callbacks[x].replace = (d.kind = "replace")

\* C13: when a mutating call (Register, Replace, Remove) causes a
\* compilation conflict, the call returns the conflict error, the newly
\* added entry remains in the registry (no rollback), and the stage's
\* compiled list is empty rather than a partially sorted prefix.  Stated
\* here for the calls that register a step; the claim makes it for Remove
\* as well.
C13_ConflictKeepsEntry ==
    (err = "conflict" /\ IsRegistration(Len(declared))) =>
        (NewEntryKept /\ fns = <<>>)

---------------------------------------------------------------------------
(* C14 *)

\* The call h names its own step as before or after.
SelfReference(h) ==
    \/ declared[h].before = declared[h].name
    \/ declared[h].after = declared[h].name

\* C14: registering a step whose before or after names the step itself
\* makes the compilation terminate with a conflict error returned to the
\* caller; it never recurses without bound.
C14_SelfReferenceConflicts ==
    (declared # <<>> /\ SelfReference(Len(declared))) => err = "conflict"

---------------------------------------------------------------------------
(* C15 *)

\* The steps h and k declare after= each other.
MutualAfter(h, k) ==
    /\ declared[h].name # declared[k].name
    /\ declared[h].after = declared[k].name
    /\ declared[k].after = declared[h].name

\* C15: whenever the registry holds a step A registered with after=B and a
\* step B registered with after=A, the mutating call that completes the
\* pair terminates and returns a conflict error to the caller.  Stated
\* here for registries whose candidate steps have distinct names.
C15_MutualAfterConflicts ==
    (/\ DistinctLiveNames
     /\ Len(declared) \in Live
     /\ \E h \in Live : MutualAfter(h, Len(declared)))
    => err = "conflict"

---------------------------------------------------------------------------
(* C16 *)

\* The handlers invoked on the *DB d so far, in the order of invocation.
FnsCalled(d) == [j \in 1..Len(d.calls) |-> d.calls[j].fn]

Returned(i) == dbs[i].pc = "returned"

Running(i) == dbs[i].pc = "call"

\* C16: one Execute call invokes every action of the stage's compiled list
\* exactly once, in compiled order, against the same context, also when an
\* error was recorded on the context during preparation or by an earlier
\* action: while the call runs, the actions invoked are a prefix of the
\* compiled list, and when it returns they are the whole list.
C16_EveryActionOnceInOrder ==
    \A i \in DBs :
        /\ Running(i) =>
              FnsCalled(dbs[i]) = SubSeq(fns, 1, Len(dbs[i].calls))
        /\ Returned(i) => FnsCalled(dbs[i]) = fns

\* A call has returned after running two actions on a context that carried
\* an error from the preparation and got another from the first action.
C16_Witness ==
    \E i \in DBs :
        /\ Returned(i)
        /\ Len(fns) = 2
        /\ Len(dbs[i].calls) = 2
        /\ dbs[i].calls[1].effect = "error"
        /\ Len(dbs[i].Error) >= 2
        /\ dbs[i].Error[1] \in {"parse", "table not set", "invalid value"}

---------------------------------------------------------------------------
(* C17 *)

\* The tokens the handlers invoked on d wrote, in the order of writing.
RECURSIVE WrittenFrom(_, _)
WrittenFrom(calls, j) ==
    IF j > Len(calls) THEN <<>>
    ELSE (IF calls[j].effect = "sql" THEN <<calls[j].fn>> ELSE <<>>)
         \o WrittenFrom(calls, j + 1)

Written(d) == WrittenFrom(d.calls, 1)

\* C17: when Execute returns, the context's SQL text is empty and its
\* parameter list is empty if the invocation is not a dry run; if it is a
\* dry run, the SQL text and parameters produced by the actions are still
\* on the context.
C17_SQLClearedUnlessDryRun ==
    \A i \in DBs :
        Returned(i) =>
            IF ~dbs[i].DryRun
            THEN dbs[i].SQL = <<>> /\ dbs[i].Vars = <<>>
            ELSE /\ dbs[i].SQL = dbs[i].given.SQL \o Written(dbs[i])
                 /\ dbs[i].Vars = dbs[i].given.SQL \o Written(dbs[i])

\* A call that is not a dry run has returned after an action wrote SQL.
C17_Witness ==
    \E i \in DBs :
        /\ Returned(i)
        /\ ~dbs[i].DryRun
        /\ Written(dbs[i]) # <<>>
        /\ dbs[i].traced

---------------------------------------------------------------------------
(* C18 *)

---------------------------------------------------------------------------
(* C19 *)

\* C19: with no registry mutation in progress, any number of Execute calls
\* running concurrently on distinct contexts against the same stage each
\* run the full compiled list in compiled order, and Execute itself never
\* writes to the stage's registry, compiled list or contributed clause
\* names.
C19_ConcurrentExecutes ==
    /\ [](\A i \in DBs :
            (Running(i) \/ Returned(i)) =>
                /\ dbs[i].rng = fns
                /\ Len(dbs[i].calls) = dbs[i].k - 1
                /\ \A j \in DOMAIN dbs[i].calls : dbs[i].calls[j].fn = fns[j]
                /\ Returned(i) => Len(dbs[i].calls) = Len(fns))
    /\ [][dbs' # dbs => UNCHANGED <<callbacks, fns, Clauses>>]_vars

\* Two calls are in the middle of the compiled list at the same time.
C19_Witness ==
    /\ Len(fns) = 2
    /\ \A i \in DBs : Running(i) /\ dbs[i].k = 2 /\ Len(dbs[i].calls) = 1

---------------------------------------------------------------------------
(* C20 *)

\* The registry entry c is the step as the call that supplied its action
\* registered it.
AsRegistered(c) ==
    LET d == declared[c.handler]
    IN  /\ c.name = d.name
        /\ c.before = d.before
        /\ c.after = d.after
        /\ c.match = d.match
        /\ c.replace = (d.kind = "replace")

\* C20: compilation never changes a registered step: after any number of
\* recompilations every step still in the registry has the same name,
\* before, after, condition and action it was registered with.
C20_CompilerLeavesStepsAlone ==
    \A x \in DOMAIN callbacks :
        ~callbacks[x].remove => AsRegistered(callbacks[x])

---------------------------------------------------------------------------
(* C21 *)

\* C21: steps that all declare before="*" appear at the front of the
\* compiled list in their registration order relative to each other, and
\* steps that all declare after="*" appear at the back in their
\* registration order relative to each other.  Stated here, for clean
\* registries, as the relative order of two compiled wildcard steps.
C21_WildcardsKeepRegistrationOrder ==
    (Compiled /\ CleanRegistry) =>
        \A i, j \in DOMAIN fns :
            /\ (/\ declared[fns[i]].before = Star
                /\ declared[fns[j]].before = Star
                /\ fns[i] < fns[j]) => i < j
            /\ (/\ declared[fns[i]].after = Star
                /\ declared[fns[j]].after = Star
                /\ fns[i] < fns[j]) => i < j

---------------------------------------------------------------------------
(* C22 *)

\* The call being made, in a step that makes one.
NewCall == declared'[Len(declared')]

\* The step is a Register of a name that no earlier call used or named,
\* made on a successfully compiled stage with no wildcard step, before or
\* after a step that the compiled list holds: when the new step is
\* resolved, last of all, its target is already placed.
RegistersOnPlaced(target) ==
    /\ Len(declared') = Len(declared) + 1
    /\ NewCall.kind = "register"
    /\ NewCall.name # target
    /\ \A k \in Ops : /\ declared[k].name # NewCall.name
                      /\ declared[k].before # NewCall.name
                      /\ declared[k].after # NewCall.name
                      /\ declared[k].before # Star
                      /\ declared[k].after # Star
    /\ err = "nil"
    /\ \E x \in DOMAIN fns : declared[fns[x]].name = target

\* The position of the step named n in the compiled list.
PlaceOf(n) == CHOOSE x \in DOMAIN fns : declared[fns[x]].name = n

\* The list L with x put at position k.
PutAt(L, k, x) == SubSeq(L, 1, k - 1) \o <<x>> \o SubSeq(L, k, Len(L))

---------------------------------------------------------------------------
(* C23 *)

\* The candidate step h declares no before/after constraint and no other
\* candidate step names it as its before or after.
Unconstrained(h) ==
    /\ h \in Live
    /\ declared[h].before = ""
    /\ declared[h].after = ""
    /\ \A k \in Live \ {h} : /\ declared[k].before # declared[h].name
                             /\ declared[k].after # declared[h].name

\* C23: steps that declare no before/after constraint and are not named as
\* the target of any other step's before/after appear in the compiled list
\* in their registration order relative to each other, whatever
\* constrained or wildcard steps are registered between them.  Stated here
\* for the steps whose name no other step in the registry shares.
C23_DefaultOrderKept ==
    Compiled =>
        \A i, j \in DOMAIN fns :
            (/\ Unconstrained(fns[i])
             /\ Unconstrained(fns[j])
             /\ LiveNamed(declared[fns[i]].name) = {fns[i]}
             /\ LiveNamed(declared[fns[j]].name) = {fns[j]}
             /\ fns[i] < fns[j]) => i < j

---------------------------------------------------------------------------
(* C24 *)

\* Steps have been removed; the steps registered before the first Remove
\* had names of their own, and every one of them that declared a constraint
\* has been removed since: the steps whose constraints contradicted each
\* other are gone.
ContradictingStepsRemoved ==
    /\ Removes # {}
    /\ \A h, k \in 1..(FirstRemove - 1) :
          h # k => declared[h].name # declared[k].name
    /\ \A h \in 1..(FirstRemove - 1) :
          (declared[h].before # "" \/ declared[h].after # "") => RemovedLater(h)

\* C24: after a compilation conflict, once the steps whose declared
\* constraints contradict each other have been removed by name (and any
\* steps re-registered afterwards declare no contradictory constraints),
\* the next compilation succeeds, returns no error and yields a non-empty
\* compiled list containing the remaining steps.  In SpecRecover a Remove
\* is only ever called after a compilation conflict.
C24_ConflictRecoverable ==
    (/\ ContradictingStepsRemoved
     /\ NoSelfReference
     /\ CleanRegistry
     /\ Live # {})
    => /\ err = "nil"
       /\ fns # <<>>
       /\ {fns[i] : i \in DOMAIN fns} = Live

---------------------------------------------------------------------------
(* C25 *)

\* The step is a Replace of the name whose action stands at index i of the
\* successfully compiled list, and neither the replaced nor the replacing
\* entry declares a wildcard constraint.
ReplacesCompiled(i) ==
    /\ Len(declared') = Len(declared) + 1
    /\ NewCall.kind = "replace"
    /\ err = "nil"
    /\ i \in DOMAIN fns
    /\ declared[fns[i]].name = NewCall.name
    /\ declared[fns[i]].before # Star /\ declared[fns[i]].after # Star
    /\ NewCall.before # Star /\ NewCall.after # Star

\* C25: Replace keeps the replaced step's slot: if the compiled list before
\* Replace(name, action2) is L and name's action occupies index i of L,
\* then (when neither entry declares a wildcard constraint) the compiled
\* list after the Replace equals L with index i changed to action2 and
\* every other index unchanged.
C25_ReplaceKeepsSlot ==
    [][\A i \in 1..Len(fns) :
          ReplacesCompiled(i) =>
              /\ err' = "nil"
              /\ fns' = [fns EXCEPT ![i] = Len(declared')]]_vars

---------------------------------------------------------------------------
(* C26 *)

\* The step registers a step whose condition evaluates to false, on a
\* registry of unconditional steps with distinct names: the compilation the
\* call triggers works on the registry as the previous compilation left it.
RegistersNothing ==
    /\ Len(declared') = Len(declared) + 1
    /\ NewCall.kind = "register"
    /\ NewCall.match = "fc"
    /\ ~dbMatch
    /\ err = "nil"
    /\ \A x \in DOMAIN callbacks : callbacks[x].match = "nil"
    /\ \A x, y \in DOMAIN callbacks :
          callbacks[x].name = callbacks[y].name => x = y

\* C26: a mutation that adds nothing is a no-op on the output: registering
\* a step whose condition (Match) evaluates to false triggers a
\* recompilation of the unchanged registry and leaves the stage's compiled
\* action list, and the result of Get for every name, exactly as they were
\* before the call.
C26_FalseConditionIsNoop ==
    [][RegistersNothing =>
          /\ err' = "nil"
          /\ fns' = fns
          /\ \A n \in DeepNames : Get(n)' = Get(n)]_vars

====
